---- MODULE Spec2Model ----
(***************************************************************************)
(* RM Styler: the menu synchronisation of js/rm_styler.js (the extension   *)
(* that keeps the style selector of an RMStyler node consistent with its   *)
(* category selector) and the Multi-Styler prompt composition.             *)
(*                                                                         *)
(* JavaScript values are modelled as strings; `undefined` is the string    *)
(* Undefined.  A JavaScript array is a sequence.  The JSON body of the     *)
(* data endpoint is a record [kind, entries]: kind "object" with entries a *)
(* function from the categories present to their style lists, or kind      *)
(* "null" for a body that is no object (JSON null).                        *)
(***************************************************************************)
EXTENDS Naturals, Sequences, FiniteSets

\* ------------------------------------------------------------------ bounds
MaxLen == 2          \* longest style list of a category in a response
MaxSlots == 2        \* slots of the Multi-Styler variant modelled

\* ----------------------------------------------------------------- values
Undefined == "undefined"
None == "none"                       \* no function object (a falsy callback / hook)
Sentinel == "No Styles Found"
NodeTypeName == "RMStyler"

Cats == {"A", "B"}                   \* values of the category selector
Styles == {"s1", "s2"}               \* style names served by the endpoint
StaleValues == {"stale"}             \* a value restored from a saved graph
Listeners == {"L1", "L2"}            \* listeners the host puts on the category selector
Receivers == {"categoryWidget", "node"}
Extras == {"canvas"}                 \* what the host passes after the value
CreateArgs == {<< >>, <<"a1">>}

SeqsUpTo(S, n) == UNION {[1..k -> S] : k \in 0..n}
StyleLists == SeqsUpTo(Styles, MaxLen)
Range(s) == {s[i] : i \in 1..Len(s)}

NoMap == [kind |-> "unset", entries |-> << >>]
NullBody == [kind |-> "null", entries |-> << >>]
EmptyObject == [kind |-> "object", entries |-> << >>]
ObjectBodies == {[kind |-> "object", entries |-> f] :
                    f \in UNION {[D -> StyleLists] : D \in SUBSET Cats}}
Bodies == ObjectBodies \cup {NullBody}

\* A parsed body whose value for the selected category is truthy and no
\* array (a number, an object), and options.values holding such a value.
MalformedBody == [kind |-> "malformed", entries |-> << >>]
NonArrayValues == <<"#non-array">>

VARIABLES
    pureIn,        \* engine call: the inputs [template, fragment, selection]
    pureOut,       \* engine call: the result [kind, positive, negative]
    slots,         \* Multi-Styler: the selections, slot 1 first
    basePrompt,    \* Multi-Styler: the base prompt
    idx,           \* Multi-Styler: the slot processed next, 0 when done
    acc,           \* Multi-Styler: the positive accumulator
    neg,           \* Multi-Styler: the negative composed so far
    pc,            \* where the node is in its life
    nodeName,      \* nodeData.name
    origHook,      \* nodeType.prototype.onNodeCreated before registration
    patched,       \* whether the prototype hook is the extension's function
    hasCategory,   \* this.widgets holds a widget named "category"
    hasStyle,      \* this.widgets holds a widget named "style"
    hookCalls,     \* calls of the original onNodeCreated: [recv, args]
    createCall,    \* the host's call of the prototype hook: [recv, args]
    returned,      \* the prototype hook has returned to the host
    createResult,  \* what it returned
    createdCat,    \* history: categoryWidget.value when the node was created
    catValue,      \* categoryWidget.value
    styleValue,    \* styleWidget.value
    styleValues,   \* styleWidget.options.values
    callback,      \* categoryWidget.callback: layers, outermost first
    stylesMap,     \* the mapping the .then callback closed over
    requests,      \* calls of api.fetchApi
    consoleErrors, \* calls of console.error
    uncaught,      \* an error left the extension's code
    fetchOutcome,  \* history: how the request settled
    hostListener,  \* history: the listener the host last put on the selector
    appliedCat,    \* history: the category last applied
    prevValue,     \* history: styleWidget.value before the last application
    justUpdated,   \* history: the last step applied a category
    lastEvent,     \* history: the last change event [wired, recv, args]
    lastCalls,     \* history: the calls the last change event made, in order
    lastReturn     \* history: what the change-listener returned to the host

hostVars == <<nodeName, origHook, hasCategory, hasStyle>>
hookVars == <<patched, hookCalls, createCall, returned, createResult, createdCat>>
styleVars == <<styleValue, styleValues>>
fetchVars == <<stylesMap, requests, consoleErrors, uncaught, fetchOutcome>>
applyVars == <<appliedCat, prevValue, justUpdated>>
eventVars == <<lastEvent, lastCalls, lastReturn>>
uiVars == <<pc, hostVars, hookVars, catValue, styleVars, callback, fetchVars,
            hostListener, applyVars, eventVars>>

multiVars == <<slots, basePrompt, idx, acc, neg>>
pureVars == <<pureIn, pureOut>>

NoCall == [recv |-> None, args |-> << >>]
NoEvent == [wired |-> FALSE, recv |-> None, args |-> << >>]

\* ------------------------------------------------------------ updateStyles
\* stylesMap && stylesMap[selectedCategory]: an array, even an empty one, is
\* truthy; a missing key reads as undefined.
HasEntry(map, cat) == map.kind = "object" /\ cat \in DOMAIN map.entries

\* Array.prototype.includes
Includes(list, v) == v \in Range(list)

\* list[0]: undefined on the empty array
Index0(list) == IF Len(list) > 0 THEN list[1] ELSE Undefined

\* Mutant: the valid values are replaced only when the selection is reset.
UpdateStylesKeepsValues(map, selectedCategory, cur) ==
    IF HasEntry(map, selectedCategory)
    THEN LET list == map.entries[selectedCategory] IN
         [values |-> IF ~Includes(list, cur) THEN list ELSE styleValues,
          value |-> IF ~Includes(list, cur) THEN Index0(list) ELSE cur]
    ELSE [values |-> <<Sentinel>>, value |-> Sentinel]

\* Mutant: the missing-category branch sets the list and keeps the value.
UpdateStylesKeepsValue(map, selectedCategory, cur) ==
    IF HasEntry(map, selectedCategory)
    THEN LET list == map.entries[selectedCategory] IN
         [values |-> list,
          value |-> IF ~Includes(list, cur) THEN Index0(list) ELSE cur]
    ELSE [values |-> <<Sentinel>>, value |-> cur]

UpdateStyles(map, selectedCategory, cur) ==
    IF HasEntry(map, selectedCategory)
    THEN LET list == map.entries[selectedCategory] IN
         [values |-> list,
          value |-> IF ~Includes(list, cur) THEN Index0(list) ELSE cur]
    ELSE [values |-> <<Sentinel>>, value |-> Sentinel]

\* --------------------------------------------------------------- listeners
ListenerReturn(l) == IF l = "L1" THEN "r1" ELSE "r2"
HookReturn(h) == IF h = None THEN Undefined ELSE "hookResult"

EngineLayer == "engine"

\* The calls categoryWidget.callback(recv, args) makes, in order.  An engine
\* layer calls updateStyles(stylesMap, value) and then the callback it
\* replaced, with its own receiver and arguments.
LayerCall(layer, recv, args) ==
    IF layer = EngineLayer
    THEN [fn |-> "updateStyles", recv |-> None, args |-> <<args[1]>>]
    ELSE [fn |-> layer, recv |-> recv, args |-> args]

CallsOf(cb, recv, args) == [i \in 1..Len(cb) |-> LayerCall(cb[i], recv, args)]

\* What the call returns: the innermost listener's value, undefined when the
\* chain ends in the engine's own function (originalCallback falsy).
ReturnOf(cb) ==
    IF Len(cb) > 0 /\ cb[Len(cb)] # EngineLayer
    THEN ListenerReturn(cb[Len(cb)])
    ELSE Undefined

\* Mutant: the engine's function overwrites the callback it found.
WrapOverwrites(originalCallback) == <<EngineLayer>>

\* Mutant: the engine's function calls the callback it found first and
\* updateStyles after it.
WrapRunsAfter(originalCallback) == originalCallback \o <<EngineLayer>>

\* The wrapper of lines 55-60 around the callback found at line 54.
Wrap(originalCallback) == <<EngineLayer>> \o originalCallback

\* ------------------------------------------------------------ Multi-Styler
\* Prompts are sequences of text pieces; the substitution token and the
\* comma-space separator are pieces of their own.
Token == "{prompt}"
Sep == ", "
NeutralWeight == "1.0"
Weights == {NeutralWeight, "1.5"}
BasePrompts == {<<"a cat">>, << >>}

CatalogCategories == {"Basic"}
CatalogStyles == {"vivid", "cinematic", "plain"}
StyleRecord(name) ==
    CASE name = "vivid" ->
           [positivePrompt |-> <<Token, Sep, "vivid colors">>, negativePrompt |-> <<"dull">>]
      [] name = "cinematic" ->
           [positivePrompt |-> <<Token, Sep, "cinematic">>, negativePrompt |-> << >>]
      [] OTHER ->
           [positivePrompt |-> <<"plain text">>, negativePrompt |-> <<Token, "blurry">>]

\* What a slot can name: the catalog's styles, a style the category lacks, a
\* category the catalog lacks.
Names == {[categoryName |-> "Basic", styleName |-> n] : n \in CatalogStyles \cup {"gone"}}
            \cup {[categoryName |-> "Gone", styleName |-> "vivid"]}
Selections == {[categoryName |-> n.categoryName, styleName |-> n.styleName,
                weight |-> w, positiveEnabled |-> p, negativeEnabled |-> q] :
                  n \in Names, w \in Weights, p \in BOOLEAN, q \in BOOLEAN}

Resolves(sel) ==
    sel.categoryName \in CatalogCategories /\ sel.styleName \in CatalogStyles

RECURSIVE ReplaceToken(_, _)
ReplaceToken(template, promptFragment) ==
    IF template = << >> THEN << >>
    ELSE (IF Head(template) = Token THEN promptFragment ELSE <<Head(template)>>)
            \o ReplaceToken(Tail(template), promptFragment)

\* Mutant: only the first occurrence of the token is replaced.
RECURSIVE ReplaceFirst(_, _)
ReplaceFirst(template, promptFragment) ==
    IF template = << >> THEN << >>
    ELSE IF Head(template) = Token THEN promptFragment \o Tail(template)
    ELSE <<Head(template)>> \o ReplaceFirst(Tail(template), promptFragment)

SubstituteFirstOnly(template, promptFragment) ==
    IF Token \in Range(template) THEN ReplaceFirst(template, promptFragment)
    ELSE IF template = << >> THEN promptFragment
    ELSE promptFragment \o <<Sep>> \o template

\* The token is replaced by the input text; without the token the style text
\* is appended to the input (README, "{prompt}"), after a comma-space; an
\* empty template gives the input alone.
Substitute(template, promptFragment) ==
    IF Token \in Range(template) THEN ReplaceToken(template, promptFragment)
    ELSE IF template = << >> THEN promptFragment
    ELSE promptFragment \o <<Sep>> \o template

ApplyWeight(text, weight) ==
    IF weight = NeutralWeight THEN text
    ELSE <<"(">> \o text \o <<":", weight, ")">>

\* The weighted-or-plain positive template of a slot that resolves.
PositiveTemplate(sel) ==
    ApplyWeight(StyleRecord(sel.styleName).positivePrompt, sel.weight)

\* Mutant: a slot takes part in the positive chain when either flag is on.
StepPositiveAnyFlag(sel, a) ==
    IF Resolves(sel) /\ (sel.positiveEnabled \/ sel.negativeEnabled)
    THEN Substitute(PositiveTemplate(sel), a)
    ELSE a

\* One slot's step of the positive chain.
StepPositive(sel, a) ==
    IF Resolves(sel) /\ sel.positiveEnabled
    THEN Substitute(PositiveTemplate(sel), a)
    ELSE a

\* Mutant: a contributing negative is put behind what is already composed.
StepNegativeAppends(sel, n) ==
    LET own == StyleRecord(sel.styleName).negativePrompt IN
    IF Resolves(sel) /\ sel.negativeEnabled /\ own # << >>
    THEN IF n = << >> THEN own ELSE n \o <<Sep>> \o own
    ELSE n

\* One slot's step of the negative: processing runs from slot N down, the
\* join is in slot order, so a contributing negative goes in front.
StepNegative(sel, n) ==
    LET own == StyleRecord(sel.styleName).negativePrompt IN
    IF Resolves(sel) /\ sel.negativeEnabled /\ own # << >>
    THEN IF n = << >> THEN own ELSE own \o <<Sep>> \o n
    ELSE n

\* Mutant: the stack is walked from slot 1 up.
SlotAtAscending(k) == slots[Len(slots) - k + 1]

\* The slot processed when the index is k: N first, 1 last.
SlotAt(k) == slots[k]

\* The positive of resolveMulti as a function of its inputs.
RECURSIVE PositiveLoop(_, _, _)
PositiveLoop(ss, k, a) ==
    IF k = 0 THEN a ELSE PositiveLoop(ss, k - 1, StepPositive(ss[k], a))

ResolveMultiPositive(ss, base) == PositiveLoop(ss, Len(ss), base)

\* Mutant: the weight is applied to the fallback text as well.
ResolveSingleWeighsFallback(sel, promptFragment) ==
    IF ~Resolves(sel)
    THEN [positive |-> ApplyWeight(<<Sentinel>>, sel.weight), negative |-> << >>]
    ELSE [positive |-> ApplyWeight(Substitute(StyleRecord(sel.styleName).positivePrompt,
                                              promptFragment), sel.weight),
          negative |-> StyleRecord(sel.styleName).negativePrompt]

\* resolveSingle: the fallback pair for a category or style the catalog
\* lacks; otherwise the substituted positive, weighted when the weight is
\* not neutral, and the negative verbatim.
ResolveSingle(sel, promptFragment) ==
    IF ~Resolves(sel)
    THEN [positive |-> <<Sentinel>>, negative |-> << >>]
    ELSE [positive |-> ApplyWeight(Substitute(StyleRecord(sel.styleName).positivePrompt,
                                              promptFragment), sel.weight),
          negative |-> StyleRecord(sel.styleName).negativePrompt]

\* Inputs of single calls of the engine's functions.
Templates == {<< >>, <<Token>>, <<Token, Sep, "vivid colors">>,
              <<"art of", Token, "and", Token>>, <<"plain text">>}
Fragments == {<<"a cat">>, << >>, <<"a", "dog">>}
NoResult == [kind |-> "none", positive |-> << >>, negative |-> << >>]

PureIdle ==
    /\ pureIn = [template |-> << >>, fragment |-> << >>,
                 selection |-> CHOOSE x \in Selections : TRUE]
    /\ pureOut = NoResult

PureInit ==
    /\ pureIn \in [template : Templates, fragment : Fragments, selection : Selections]
    /\ pureOut = NoResult

\* substitute(template, promptFragment) is called.
CallSubstitute ==
    /\ pureOut = NoResult
    /\ pureOut' = [kind |-> "substitute",
                   positive |-> Substitute(pureIn.template, pureIn.fragment),
                   negative |-> << >>]
    /\ UNCHANGED <<pureIn, uiVars, multiVars>>

\* resolveSingle(catalog, selection) is called with the prompt fragment.
CallResolveSingle ==
    /\ pureOut = NoResult
    /\ LET r == ResolveSingle(pureIn.selection, pureIn.fragment) IN
       pureOut' = [kind |-> "resolveSingle", positive |-> r.positive,
                   negative |-> r.negative]
    /\ UNCHANGED <<pureIn, uiVars, multiVars>>

MultiIdle ==
    /\ slots = << >>
    /\ basePrompt = << >>
    /\ idx = 0
    /\ acc = << >>
    /\ neg = << >>

\* resolveMulti is entered: acc = basePrompt, the highest slot is next.
MultiInit ==
    /\ slots \in [1..MaxSlots -> Selections]
    /\ basePrompt \in BasePrompts
    /\ idx = MaxSlots
    /\ acc = basePrompt
    /\ neg = << >>

\* One iteration of resolveMulti's loop.
MultiStep ==
    /\ idx > 0
    /\ acc' = StepPositive(SlotAt(idx), acc)
    /\ neg' = StepNegative(SlotAt(idx), neg)
    /\ idx' = idx - 1
    /\ UNCHANGED <<slots, basePrompt>>
    /\ UNCHANGED <<uiVars, pureVars>>

\* -------------------------------------------------------------------- Init
UIInit ==
    /\ pc = "start"
    /\ nodeName \in {NodeTypeName, "Other"}
    /\ origHook \in {None, "H1"}
    /\ hasCategory \in BOOLEAN
    /\ hasStyle \in BOOLEAN
    /\ patched = FALSE
    /\ hookCalls = << >>
    /\ createCall = NoCall
    /\ returned = FALSE
    /\ createResult = Undefined
    /\ createdCat = None
    /\ catValue \in Cats
    /\ styleValues = <<"s1", "s2">>
    /\ styleValue \in Styles \cup StaleValues
    /\ callback = << >>
    /\ stylesMap = NoMap
    /\ requests = 0
    /\ consoleErrors = 0
    /\ uncaught = FALSE
    /\ fetchOutcome = "none"
    /\ hostListener = None
    /\ appliedCat = None
    /\ prevValue = Undefined
    /\ justUpdated = FALSE
    /\ lastEvent = NoEvent
    /\ lastCalls = << >>
    /\ lastReturn = Undefined

\* The extension before any node type is registered, with one fixed host.
UIIdle ==
    /\ UIInit
    /\ nodeName = NodeTypeName
    /\ origHook = None
    /\ hasCategory /\ hasStyle
    /\ catValue = "A"
    /\ styleValue = "s1"

\* ----------------------------------------------------------------- actions
\* beforeRegisterNodeDef: the hook is replaced for the RMStyler type only.
BeforeRegisterNodeDef ==
    /\ pc = "start"
    /\ pc' = "registered"
    /\ patched' = (nodeName = NodeTypeName)
    /\ justUpdated' = FALSE
    /\ UNCHANGED <<hostVars, hookCalls, createCall, returned, createResult,
                   createdCat, catValue, styleVars, callback, fetchVars, hostListener,
                   appliedCat, prevValue, eventVars>>
    /\ UNCHANGED <<multiVars, pureVars>>

\* Mutant: the original hook is called without the arguments.
CallOriginalNoArgs(recv, args) ==
    IF origHook # None THEN <<[recv |-> recv, args |-> << >>]>> ELSE << >>

\* The original hook, when there is one, is applied to the same receiver and
\* arguments (line 11).
CallOriginal(recv, args) ==
    IF origHook # None THEN <<[recv |-> recv, args |-> args]>> ELSE << >>

\* Mutant: the widgets are not checked; the request is always issued.
OnNodeCreatedNoGuard(args) ==
    /\ pc = "registered"
    /\ createCall' = [recv |-> "node", args |-> args]
    /\ hookCalls' = CallOriginal("node", args)
    /\ createResult' = HookReturn(origHook)
    /\ returned' = TRUE
    /\ createdCat' = catValue
    /\ IF ~patched THEN /\ pc' = "plain"
                        /\ requests' = requests
       ELSE /\ pc' = "awaitFetch"
            /\ requests' = requests + 1
    /\ justUpdated' = FALSE
    /\ UNCHANGED <<hostVars, patched, catValue, styleVars, callback, stylesMap,
                   consoleErrors, uncaught, fetchOutcome, hostListener,
                   appliedCat, prevValue, eventVars>>
    /\ UNCHANGED <<multiVars, pureVars>>

\* Mutant: the wrapper is installed at creation, before the request settles.
OnNodeCreatedWiresEarly(args) ==
    /\ pc = "registered"
    /\ createCall' = [recv |-> "node", args |-> args]
    /\ hookCalls' = CallOriginal("node", args)
    /\ createResult' = HookReturn(origHook)
    /\ returned' = TRUE
    /\ createdCat' = catValue
    /\ IF ~patched THEN /\ pc' = "plain"
                        /\ requests' = requests
                        /\ callback' = callback
       ELSE IF ~hasCategory \/ ~hasStyle
            THEN /\ pc' = "noWidgets"
                 /\ requests' = requests
                 /\ callback' = callback
            ELSE /\ pc' = "awaitFetch"
                 /\ requests' = requests + 1
                 /\ callback' = <<EngineLayer>> \o callback
    /\ justUpdated' = FALSE
    /\ UNCHANGED <<hostVars, patched, catValue, styleVars, stylesMap,
                   consoleErrors, uncaught, fetchOutcome, hostListener,
                   appliedCat, prevValue, eventVars>>
    /\ UNCHANGED <<multiVars, pureVars>>

\* The host creates a node: it calls prototype.onNodeCreated.  Patched, the
\* function calls the original, looks the two widgets up and either returns
\* (line 17) or starts fetchData and returns (line 63) with the request in
\* flight.
OnNodeCreated(args) ==
    /\ pc = "registered"
    /\ createCall' = [recv |-> "node", args |-> args]
    /\ hookCalls' = CallOriginal("node", args)
    /\ createResult' = HookReturn(origHook)
    /\ returned' = TRUE
    /\ createdCat' = catValue
    /\ IF ~patched THEN /\ pc' = "plain"
                        /\ requests' = requests
       ELSE IF ~hasCategory \/ ~hasStyle
            THEN /\ pc' = "noWidgets"
                 /\ requests' = requests
            ELSE /\ pc' = "awaitFetch"
                 /\ requests' = requests + 1
    /\ justUpdated' = FALSE
    /\ UNCHANGED <<hostVars, patched, catValue, styleVars, callback, stylesMap,
                   consoleErrors, uncaught, fetchOutcome, hostListener,
                   appliedCat, prevValue, eventVars>>
    /\ UNCHANGED <<multiVars, pureVars>>

NodeCreated == \E args \in CreateArgs : OnNodeCreated(args)

\* Mutant: the initial update uses the category read when the node was
\* created.
InitializeWithCreationCategory(map) ==
    LET u == UpdateStyles(map, createdCat, styleValue) IN
    /\ stylesMap' = map
    /\ styleValues' = u.values
    /\ styleValue' = u.value
    /\ callback' = Wrap(callback)
    /\ pc' = "wired"
    /\ appliedCat' = catValue
    /\ prevValue' = styleValue
    /\ justUpdated' = TRUE

\* The callback of fetchData().then (lines 48-61), run with the mapping the
\* promise resolved to: the initial update, then the wrapper is installed
\* over whatever callback the selector holds now.
Initialize(map) ==
    LET u == UpdateStyles(map, catValue, styleValue) IN
    /\ stylesMap' = map
    /\ styleValues' = u.values
    /\ styleValue' = u.value
    /\ callback' = Wrap(callback)
    /\ pc' = "wired"
    /\ appliedCat' = catValue
    /\ prevValue' = styleValue
    /\ justUpdated' = TRUE

\* api.fetchApi resolves with a response; response.json() is awaited next.
FetchResponds ==
    /\ pc = "awaitFetch"
    /\ pc' = "awaitJson"
    /\ justUpdated' = FALSE
    /\ UNCHANGED <<hostVars, hookVars, catValue, styleVars, callback, fetchVars,
                   hostListener, appliedCat, prevValue, eventVars>>
    /\ UNCHANGED <<multiVars, pureVars>>

\* Mutant: no catch; the rejection leaves fetchData and .then never runs.
CaughtNot(outcome) ==
    /\ fetchOutcome' = outcome
    /\ uncaught' = TRUE
    /\ pc' = "failed"
    /\ justUpdated' = FALSE
    /\ UNCHANGED <<consoleErrors, requests, stylesMap, styleVars, callback,
                   appliedCat, prevValue>>

\* Mutant: the catch issues the request again.
CaughtRetries(outcome) ==
    /\ consoleErrors' = consoleErrors + 1
    /\ fetchOutcome' = outcome
    /\ uncaught' = uncaught
    /\ requests' = requests + 1
    /\ Initialize(EmptyObject)

\* The catch of lines 26-29: the error is logged and fetchData resolves to {}.
Caught(outcome) ==
    /\ consoleErrors' = consoleErrors + 1
    /\ fetchOutcome' = outcome
    /\ uncaught' = uncaught
    /\ requests' = requests
    /\ Initialize(EmptyObject)

\* api.fetchApi rejects (network error).
FetchRejects ==
    /\ pc = "awaitFetch"
    /\ Caught("rejected")
    /\ UNCHANGED <<hostVars, hookVars, catValue, hostListener, eventVars>>
    /\ UNCHANGED <<multiVars, pureVars>>

\* response.json() rejects (the body does not parse).
JsonRejects ==
    /\ pc = "awaitJson"
    /\ Caught("parseError")
    /\ UNCHANGED <<hostVars, hookVars, catValue, hostListener, eventVars>>
    /\ UNCHANGED <<multiVars, pureVars>>

\* response.json() resolves with the parsed body; fetchData returns it and
\* the .then callback runs in the same microtask checkpoint.
JsonResolves ==
    /\ pc = "awaitJson"
    /\ \E data \in Bodies :
          /\ fetchOutcome' = "ok"
          /\ Initialize(data)
    /\ UNCHANGED <<hostVars, hookVars, catValue, requests, consoleErrors, uncaught,
                   hostListener, eventVars>>
    /\ UNCHANGED <<multiVars, pureVars>>

\* response.json() resolves with an object whose value for the selected
\* category is truthy and has no includes method: updateStyles assigns it to
\* options.values (line 35) and line 38 throws a TypeError, so the .then
\* callback ends before line 54 and its promise rejects unhandled.
JsonResolvesNonArray ==
    /\ pc = "awaitJson"
    /\ pc' = "threw"
    /\ fetchOutcome' = "ok"
    /\ stylesMap' = MalformedBody
    /\ styleValues' = NonArrayValues
    /\ uncaught' = TRUE
    /\ appliedCat' = catValue
    /\ prevValue' = styleValue
    /\ justUpdated' = FALSE
    /\ UNCHANGED <<hostVars, hookVars, catValue, styleValue, callback, requests,
                   consoleErrors, hostListener, eventVars>>
    /\ UNCHANGED <<multiVars, pureVars>>

Created == pc \in {"awaitFetch", "awaitJson", "wired", "noWidgets", "plain", "threw"}

\* The host (another extension, the graph loader) puts a listener of its own
\* on the category selector before the engine has wired its wrapper.
HostSetsListener ==
    /\ pc \in {"awaitFetch", "awaitJson"}
    /\ \E l \in Listeners :
          /\ callback' = <<l>>
          /\ hostListener' = l
    /\ justUpdated' = FALSE
    /\ UNCHANGED <<pc, hostVars, hookVars, catValue, styleVars, fetchVars,
                   appliedCat, prevValue, eventVars>>
    /\ UNCHANGED <<multiVars, pureVars>>

\* The effect of one change event on the style selector: every engine layer
\* of the chain runs updateStyles(stylesMap, value).
RECURSIVE ApplyLayers(_, _, _)
ApplyLayers(cb, value, st) ==
    IF cb = << >> THEN st
    ELSE ApplyLayers(Tail(cb), value,
                     IF Head(cb) = EngineLayer
                     THEN UpdateStyles(stylesMap, value, st.value)
                     ELSE st)

\* The user picks a category: the host stores it in the widget and calls
\* categoryWidget.callback(value, ...) when the widget has a callback.
CategoryChange ==
    /\ Created /\ hasCategory
    /\ \E v \in Cats, recv \in Receivers, x \in Extras :
          LET args == <<v, x>>
              u == ApplyLayers(callback, v, [values |-> styleValues, value |-> styleValue])
              wired == pc = "wired"
          IN
          /\ catValue' = v
          /\ styleValues' = u.values
          /\ styleValue' = u.value
          /\ lastEvent' = [wired |-> wired, recv |-> recv, args |-> args]
          /\ lastCalls' = CallsOf(callback, recv, args)
          /\ lastReturn' = ReturnOf(callback)
          /\ appliedCat' = IF wired THEN v ELSE appliedCat
          /\ prevValue' = IF wired THEN styleValue ELSE prevValue
          /\ justUpdated' = wired
    /\ UNCHANGED <<pc, hostVars, hookVars, callback, fetchVars, hostListener>>
    /\ UNCHANGED <<multiVars, pureVars>>

\* The user picks one of the style selector's valid values.
StyleChange ==
    /\ Created /\ hasStyle /\ styleValues # NonArrayValues
    /\ \E v \in Range(styleValues) : styleValue' = v /\ v # styleValue
    /\ justUpdated' = FALSE
    /\ UNCHANGED <<pc, hostVars, hookVars, catValue, styleValues, callback, fetchVars,
                   hostListener, appliedCat, prevValue, eventVars>>
    /\ UNCHANGED <<multiVars, pureVars>>

UINext ==
    \/ BeforeRegisterNodeDef
    \/ NodeCreated
    \/ FetchResponds
    \/ FetchRejects
    \/ JsonRejects
    \/ JsonResolves
    \/ HostSetsListener
    \/ CategoryChange
    \/ StyleChange

vars == <<uiVars, multiVars, pureVars>>

\* ------------------------------------------------------------------ claims
Wired == pc = "wired"
EngineLayers == {i \in 1..Len(callback) : callback[i] = EngineLayer}
CallsTo(fn) == {i \in 1..Len(lastCalls) : lastCalls[i].fn = fn}
ListenerCalls == {i \in 1..Len(lastCalls) : lastCalls[i].fn \in Listeners}

\* C1: once the request has settled and the initial update has run, and
\* after every later category change, the style selector's valid values are
\* the mapping's list for the category last applied, whenever the mapping has
\* an entry for it.
C1_MenuSync ==
    (Wired /\ HasEntry(stylesMap, appliedCat))
        => styleValues = stylesMap.entries[appliedCat]

C1_Witness ==
    /\ Wired /\ lastEvent.wired /\ justUpdated
    /\ HasEntry(stylesMap, appliedCat)
    /\ appliedCat = "B"
    /\ stylesMap.entries["B"] = <<"s2", "s1">>
    /\ styleValues = <<"s2", "s1">>
    /\ prevValue = "s1"

\* C2: an application of a category that has an entry leaves the value alone
\* when it is a member of the new valid set and otherwise makes it the first
\* element of that set; no other value is chosen.
C2_ReselectRule ==
    (justUpdated /\ HasEntry(stylesMap, appliedCat))
        => LET list == stylesMap.entries[appliedCat] IN
           IF Includes(list, prevValue)
           THEN styleValue = prevValue
           ELSE Len(list) > 0 /\ styleValue = list[1]

\* C3: when the applied category has no entry in the mapping (the empty
\* mapping included), the valid values are ["No Styles Found"] and the value
\* is "No Styles Found", whatever it was before.
C3_SentinelOnMissing ==
    (Wired /\ ~HasEntry(stylesMap, appliedCat))
        => styleValues = <<Sentinel>> /\ styleValue = Sentinel

C3_Witness ==
    /\ Wired /\ justUpdated /\ lastEvent.wired
    /\ stylesMap.kind = "object" /\ DOMAIN stylesMap.entries = {"A"}
    /\ appliedCat = "B"
    /\ prevValue = "s2"
    /\ styleValue = Sentinel

\* C4: the listener on the category selector when the engine wires its own
\* is called exactly once per later change, with the event's receiver and
\* arguments, and its return value is the change-listener's; the wrapper is
\* installed at most once, so updateStyles runs exactly once per change.
C4_ListenerChaining ==
    /\ Cardinality(EngineLayers) <= 1
    /\ lastEvent.wired =>
          /\ Cardinality(CallsTo("updateStyles")) = 1
          /\ \A i \in CallsTo("updateStyles") : lastCalls[i].args = <<lastEvent.args[1]>>
          /\ IF hostListener # None
             THEN /\ Cardinality(ListenerCalls) = 1
                  /\ \A i \in ListenerCalls :
                        /\ lastCalls[i].fn = hostListener
                        /\ lastCalls[i].recv = lastEvent.recv
                        /\ lastCalls[i].args = lastEvent.args
                  /\ lastReturn = ListenerReturn(hostListener)
             ELSE /\ ListenerCalls = {}
                  /\ lastReturn = Undefined

C4_Witness ==
    /\ lastEvent.wired
    /\ hostListener = "L2"
    /\ lastEvent.recv = "node"
    /\ lastReturn = "r2"
    /\ Len(lastCalls) = 2

\* C5: a failed request (rejection or parse error) is caught: the mapping is
\* the empty mapping, the style selector shows the sentinel after the initial
\* update and after every later change, the change-listener is wired and no
\* error leaves the extension.
C5_FetchFailureDegrades ==
    fetchOutcome \in {"rejected", "parseError"}
        => /\ Wired
           /\ stylesMap = EmptyObject
           /\ styleValues = <<Sentinel>> /\ styleValue = Sentinel
           /\ Cardinality(EngineLayers) = 1
           /\ consoleErrors = 1
           /\ ~uncaught

C5_Witness ==
    /\ fetchOutcome = "parseError"
    /\ lastEvent.wired /\ justUpdated
    /\ Cardinality(CallsTo("updateStyles")) = 1
    /\ styleValue = Sentinel

\* C6: a created RMStyler node with both widgets has issued exactly one data
\* request, while the request is pending, after it failed and after any
\* number of category changes; any other node has issued none.
C6_SingleRequest ==
    /\ pc \in {"awaitFetch", "awaitJson", "wired"} => requests = 1
    /\ pc \notin {"awaitFetch", "awaitJson", "wired"} => requests = 0

C6_Witness ==
    /\ fetchOutcome = "rejected"
    /\ lastEvent.wired
    /\ requests = 1

\* C7: the patched onNodeCreated has called the original (if any) once with
\* the receiver and arguments of the host's call and has returned its result
\* while the data request is still pending.
C7_CreationNotBlocked ==
    /\ (patched /\ returned) =>
          /\ createResult = HookReturn(origHook)
          /\ hookCalls = IF origHook # None THEN <<createCall>> ELSE << >>
    /\ (patched /\ pc \in {"awaitFetch", "awaitJson"}) => returned

C7_Witness ==
    /\ patched /\ returned
    /\ pc = "awaitFetch"
    /\ origHook = "H1"
    /\ createCall.args = <<"a1">>
    /\ createResult = "hookResult"

\* C8: when the applied category's entry is the empty sequence, the style
\* selector ends as for a missing category: valid values ["No Styles Found"],
\* value "No Styles Found".
C8_EmptyCategoryIsSentinel ==
    (Wired /\ HasEntry(stylesMap, appliedCat) /\ stylesMap.entries[appliedCat] = << >>)
        => styleValues = <<Sentinel>> /\ styleValue = Sentinel

\* The stack nested from the outside in: slot 1 wraps what slots 2..N give.
RECURSIVE Nested(_, _)
Nested(ss, base) ==
    IF ss = << >> THEN base
    ELSE LET inner == Nested(Tail(ss), base) IN
         IF Resolves(Head(ss)) /\ Head(ss).positiveEnabled
         THEN Substitute(PositiveTemplate(Head(ss)), inner)
         ELSE inner

RemoveAt(ss, i) == [k \in 1..(Len(ss) - 1) |-> IF k < i THEN ss[k] ELSE ss[k + 1]]
PlainOn(sel) ==
    sel.categoryName = "Basic" /\ sel.positiveEnabled /\ sel.weight = NeutralWeight

\* C9: resolveMulti starts from acc = basePrompt and walks the slots from N
\* down to 1, an enabled slot replacing acc by substitute(its template, acc):
\* the result is slot 1 around slot 2 around ... around the base; base
\* "a cat", slot 2 "{prompt}, vivid colors", slot 1 "{prompt}, cinematic",
\* both enabled, gives "a cat, vivid colors, cinematic".
C9_StackingOrder ==
    /\ idx = Len(slots) => acc = basePrompt
    /\ idx = 0 => acc = Nested(slots, basePrompt)
    /\ (/\ idx = 0 /\ Len(slots) >= 2
        /\ basePrompt = <<"a cat">>
        /\ slots[Len(slots)].styleName = "vivid" /\ PlainOn(slots[Len(slots)])
        /\ slots[Len(slots) - 1].styleName = "cinematic" /\ PlainOn(slots[Len(slots) - 1])
        /\ \A k \in 1..(Len(slots) - 2) : ~slots[k].positiveEnabled)
       => acc = <<"a cat", Sep, "vivid colors", Sep, "cinematic">>

C9_Witness ==
    /\ idx = 0
    /\ basePrompt = <<"a cat">>
    /\ slots[Len(slots)].styleName = "vivid" /\ PlainOn(slots[Len(slots)])
    /\ slots[Len(slots) - 1].styleName = "cinematic" /\ PlainOn(slots[Len(slots) - 1])
    /\ acc = <<"a cat", Sep, "vivid colors", Sep, "cinematic">>

\* C10: a slot whose positive flag is off leaves the accumulator as it
\* received it, and the final positive is that of the stack without the
\* slot, whatever the slot's negative flag.
C10_DisabledPassesThrough ==
    /\ [][(idx > 0 /\ ~slots[idx].positiveEnabled) => acc' = acc]_vars
    /\ [](idx = 0 =>
            \A i \in 1..Len(slots) :
               ~slots[i].positiveEnabled =>
                  /\ acc = ResolveMultiPositive(RemoveAt(slots, i), basePrompt)
                  /\ acc = ResolveMultiPositive(
                              [slots EXCEPT ![i].negativeEnabled = ~@], basePrompt))

C10_Witness ==
    /\ idx = 0
    /\ Resolves(slots[2]) /\ ~slots[2].positiveEnabled /\ slots[2].negativeEnabled
    /\ Resolves(slots[1]) /\ slots[1].positiveEnabled
    /\ basePrompt = <<"a cat">>
    /\ acc = ResolveMultiPositive(<<slots[1]>>, basePrompt)
    /\ acc # basePrompt
    /\ neg # << >>

\* The negative a slot contributes: its style's negative, verbatim, when the
\* slot resolves and its negative flag is on; nothing otherwise.
OwnNegative(sel) ==
    IF Resolves(sel) /\ sel.negativeEnabled
    THEN StyleRecord(sel.styleName).negativePrompt
    ELSE << >>

\* The comma-space join of the non-empty contributions of slots 1..k, built
\* from slot 1 on.
RECURSIVE JoinUpTo(_, _)
JoinUpTo(ss, k) ==
    IF k = 0 THEN << >>
    ELSE LET before == JoinUpTo(ss, k - 1)
             own == OwnNegative(ss[k])
         IN IF own = << >> THEN before
            ELSE IF before = << >> THEN own
            ELSE before \o <<Sep>> \o own

Contributors(ss) == {k \in 1..Len(ss) : OwnNegative(ss[k]) # << >>}

\* C11: the final negative is the comma-space join, in slot order 1..N, of
\* the negatives of the slots whose negative flag is on and whose negative is
\* not empty, each verbatim (the token in a negative stays the token); it
\* has no leading, trailing or doubled separator and is empty when no slot
\* contributes.
C11_NegativeComposition ==
    idx = 0 =>
       /\ neg = JoinUpTo(slots, Len(slots))
       /\ (Contributors(slots) = {}) <=> (neg = << >>)
       /\ neg # << >> => (neg[1] # Sep /\ neg[Len(neg)] # Sep)
       /\ \A i \in 1..(Len(neg) - 1) : ~(neg[i] = Sep /\ neg[i + 1] = Sep)
       /\ Cardinality({i \in 1..Len(neg) : neg[i] = Sep})
             = (IF Contributors(slots) = {} THEN 0 ELSE Cardinality(Contributors(slots)) - 1)

C11_Witness ==
    /\ idx = 0
    /\ slots[1].styleName = "plain" /\ Resolves(slots[1]) /\ slots[1].negativeEnabled
    /\ slots[2].styleName = "vivid" /\ Resolves(slots[2]) /\ slots[2].negativeEnabled
    /\ ~slots[1].positiveEnabled
    /\ basePrompt = <<"a cat">>
    /\ neg = <<Token, "blurry", Sep, "dull">>

\* The template with every token replaced, built from its last piece back.
RECURSIVE ReplacedUpTo(_, _, _)
ReplacedUpTo(t, f, k) ==
    IF k = 0 THEN << >>
    ELSE ReplacedUpTo(t, f, k - 1) \o (IF t[k] = Token THEN f ELSE <<t[k]>>)

C13_UnknownSelectionFallback ==
    /\ (pureOut.kind = "resolveSingle" /\ ~Resolves(pureIn.selection))
          => pureOut.positive = <<Sentinel>> /\ pureOut.negative = << >>
    /\ pureOut = NoResult => ENABLED CallResolveSingle

C13_Witness ==
    /\ pureOut.kind = "resolveSingle"
    /\ pureIn.selection.categoryName = "Basic"
    /\ pureIn.selection.styleName = "gone"
    /\ pureIn.selection.weight = "1.5"
    /\ pureIn.fragment = <<"a cat">>
    /\ pureOut.positive = <<Sentinel>>
    /\ pureOut.negative = << >>

Pending == pc \in {"awaitFetch", "awaitJson"}

\* C14: the engine's listener is on the selector only once the request has
\* settled and the initial update has been applied, so it never runs with an
\* unset mapping; a category change while the request is pending calls the
\* pre-existing listener only and leaves the style selector as it was.
C14_WiringOrder ==
    /\ [](EngineLayers # {} =>
             /\ Wired
             /\ fetchOutcome # "none"
             /\ stylesMap # NoMap
             /\ appliedCat # None)
    /\ []((lastEvent # NoEvent /\ ~lastEvent.wired) =>
             /\ CallsTo("updateStyles") = {}
             /\ \A i \in 1..Len(lastCalls) :
                   /\ lastCalls[i].fn \in Listeners
                   /\ lastCalls[i].recv = lastEvent.recv
                   /\ lastCalls[i].args = lastEvent.args
             /\ Len(lastCalls) <= 1)
    /\ [][(Pending /\ (lastEvent' # lastEvent \/ catValue' # catValue))
             => (styleValue' = styleValue /\ styleValues' = styleValues)]_vars

C14_Witness ==
    /\ pc = "awaitJson"
    /\ lastEvent # NoEvent /\ ~lastEvent.wired
    /\ hostListener = "L1"
    /\ Len(lastCalls) = 1 /\ lastCalls[1].fn = "L1"
    /\ catValue # createdCat
    /\ styleValue = "stale" /\ styleValues = <<"s1", "s2">>
    /\ callback = <<"L1">>

\* C15: once the data request has settled, with success or failure and
\* whatever the body, the initial update has been applied and the
\* change-listener is wired (the .then callback runs in the microtask
\* checkpoint in which fetchData resolves).
C15_SettledMeansWired ==
    fetchOutcome # "none" =>
       /\ Wired
       /\ appliedCat # None
       /\ Cardinality(EngineLayers) = 1

\* C16 as stated: on a category change after wiring, the pre-existing
\* listener runs before the engine's style update.
C16_ListenerRunsFirst ==
    (lastEvent.wired /\ hostListener # None) =>
       \E i, j \in 1..Len(lastCalls) :
          /\ i < j
          /\ lastCalls[i].fn = hostListener
          /\ lastCalls[j].fn = "updateStyles"

\* C16 amended: on a category change after wiring, the engine's style update
\* runs first and the pre-existing listener, when there is one, runs after it.
C16_UpdateRunsFirst ==
    lastEvent.wired =>
       /\ Len(lastCalls) >= 1
       /\ lastCalls[1].fn = "updateStyles"
       /\ hostListener # None =>
             /\ Len(lastCalls) = 2
             /\ lastCalls[2].fn = hostListener

C16_Witness ==
    /\ lastEvent.wired
    /\ hostListener = "L1"
    /\ lastCalls[1].fn = "updateStyles"
    /\ lastCalls[2].fn = "L1"
    /\ lastReturn = "r1"

\* C17: in every state after the initial update the style selector's list of
\* valid values is not empty and its value is one of them.
C17_SelectionValid ==
    Wired => (styleValues # << >> /\ styleValue \in Range(styleValues))

\* C18: right after the request settles, for every interleaving of category
\* changes with the pending request, the style selector shows the list of the
\* category selected now (the sentinel when the mapping has none), not that
\* of the category selected when the node was created.
C18_SettleUsesCurrentCategory ==
    (Wired /\ justUpdated /\ ~lastEvent.wired) =>
       /\ appliedCat = catValue
       /\ IF HasEntry(stylesMap, catValue)
          THEN styleValues = stylesMap.entries[catValue]
          ELSE styleValues = <<Sentinel>> /\ styleValue = Sentinel

C18_Witness ==
    /\ Wired /\ justUpdated /\ ~lastEvent.wired
    /\ lastEvent # NoEvent
    /\ createdCat = "A" /\ catValue = "B"
    /\ HasEntry(stylesMap, "A") /\ HasEntry(stylesMap, "B")
    /\ stylesMap.entries["A"] = <<"s1">>
    /\ stylesMap.entries["B"] = <<"s2">>
    /\ styleValues = <<"s2">> /\ styleValue = "s2"

Guarded == nodeName # NodeTypeName \/ ~hasCategory \/ ~hasStyle

Init == UIInit /\ MultiIdle /\ PureIdle
Next == UINext
Spec == Init /\ [][Next]_vars

\* The menu synchronisation with a data endpoint that may send any JSON body.
NextAnyBody ==
    \/ UINext
    \/ JsonResolvesNonArray
SpecAnyBody == Init /\ [][NextAnyBody]_vars

\* One call of resolveMulti.
InitMulti == UIIdle /\ MultiInit /\ PureIdle
NextMulti == MultiStep
SpecMulti == InitMulti /\ [][NextMulti]_vars

\* Single calls of substitute and resolveSingle.
InitPure == UIIdle /\ MultiIdle /\ PureInit
NextPure ==
    \/ CallSubstitute
    \/ CallResolveSingle
SpecPure == InitPure /\ [][NextPure]_vars

====
